---- MODULE Spec2Model ----
(***************************************************************************)
(* The write path of the eventstore (package eventstore, v3 push):         *)
(* Eventstore.Push, Eventstore.writeEvents, writeEvents and                *)
(* checkExecutionPlan of src/unnamed/part_000, run by concurrent callers   *)
(* against one backend.                                                    *)
(*                                                                         *)
(* Each caller is a process whose position in the code is pc[p].  Every    *)
(* blocking call of the source (Conn, Raw, BeginTx, QueryContext, the      *)
(* constraint and field steps, Exec, Commit/Rollback, Close) is one step,  *)
(* and its outcome (success or an error) is chosen nondeterministically.   *)
(* The backend is a store of committed effects plus, per open              *)
(* transaction, the effects that are pending.                              *)
(***************************************************************************)
EXTENDS Integers, Sequences, FiniteSets, TLC

\* ---------------------------------------------------------------- bounds
MaxCmds == 2        \* largest batch (number of commands of one Push)
MaxPushes == 2      \* Push calls started in one behaviour
MaxConns == 2       \* size of the connection pool
MaxFaults == 1      \* disturbances in one behaviour: errors of a primary
                    \* step, short answers and cancellations

Procs == {"p1", "p2"}     \* concurrent callers of Push
Conns == 1..MaxConns      \* physical connections of the pool (es.client)
NoConn == 0
Keys == {"k1", "k2"}      \* the unique-constraint keys a batch can claim

\* ---------------------------------------------------------------- values
NoErr == "nil"
\* errors a backend call can fail with, besides cancellation
Faults == {"setupNotExecuted", "backend"}

NilEvents == [nil |-> TRUE, list |-> <<>>]
Some(l) == [nil |-> FALSE, list |-> l]

\* the zero value of the three ordering fields of an *event
ZeroEvent == [createdAt |-> 0, sequence |-> 0, position |-> 0]

NoBatch == [n |-> 0, keys |-> {}]
\* &sql.TxOptions{Isolation: sql.LevelReadCommitted, ReadOnly: false}
TxOptions == [Isolation |-> "LevelReadCommitted", ReadOnly |-> FALSE]
NoTx == [open |-> FALSE, opts |-> <<>>, events |-> <<>>, keys |-> {}, fields |-> {},
         begun |-> 0]
NoResult == [events |-> NilEvents, err |-> NoErr]

\* Commands come from a catalogue: command i of a batch is the i-th command
\* of the catalogue, and the second command is the one that carries unique
\* constraints (it claims every key).  A batch is the first n commands.
UniqueConstraints(i) == IF i = 2 THEN Keys ELSE {}
BatchKeys(n) == UNION {UniqueConstraints(i) : i \in 1..n}

VARIABLES
    pc,          \* pc[p]: where caller p stands in Push / Eventstore.writeEvents
    cmds,        \* cmds[p]: the batch of the running Push: n commands, keys claimed
    calls,       \* calls[p]: Push calls p has started so far
    conn,        \* conn[p]: the *sql.Conn held by p (NoConn: not held)
    ctx,         \* ctx[p]: "live", or the point at which the caller cancelled it
    err,         \* err[p]: the named result err of Eventstore.writeEvents
    events,      \* events[p]: the local events of Eventstore.writeEvents
    ret,         \* ret[p]: the unnamed first result of Eventstore.writeEvents
    opened,      \* the connections the pool has opened
    tx,          \* tx[p]: the open transaction's pending effects, and the
                 \* transactions the running Push has begun
    typeMap,     \* typeMap[c]: the connection's type map knows *command
    regs,        \* regs[c]: successful type registrations on connection c
    clientType,  \* es.client.Type()
    db,          \* committed effects: events, key reservations, field projections
    commitOrder, \* ids of the batches in the order they committed
    clock,       \* the backend's position source
    prim,        \* prim[p]: what es.writeEvents returned to Push
    fb,          \* fb[p]: what es.pushWithoutFunc returned to Push
    res,         \* res[p]: what Push returned
    fbCalls,     \* fbCalls[p]: invocations of pushWithoutFunc by the running Push
    steps,       \* steps[p]: the calls the running Push issued, in order
    txEnd,       \* txEnd[p]: the calls that ended the transaction: the
                 \* call, its error and the err the deferred function found
    connRel,     \* connRel[p]: releases of the connection by the running Push
    faults       \* disturbances so far

vars == <<pc, cmds, calls, conn, opened, ctx, err, events, ret, tx, typeMap, regs,
          clientType, db, commitOrder, clock, prim, fb, res, fbCalls, steps,
          txEnd, connRel, faults>>

\* ---------------------------------------------------------------- helpers
Cancelled(p) == ctx[p] /= "live"

\* the running Push call of p: the batch it appends is known by this id
Id(p) == <<p, calls[p]>>
Ids == Procs \X (1..MaxPushes)

RECURSIVE Sum(_, _)
Sum(f, S) == IF S = {} THEN 0
             ELSE LET x == CHOOSE y \in S : TRUE IN f[x] + Sum(f, S \ {x})
\* Push calls started so far
Pushes == Sum(calls, Procs)

\* where in Push a cancellation falls: before the transaction, at one of its
\* steps, or after its end
CancelPoint(at) ==
    IF at \in {"conn", "probe", "begin"} THEN "beforeTx"
    ELSE IF at \in {"connClose", "classify", "fallback"} THEN "afterTx"
    ELSE at

\* outcome of a call that is given ctx: a cancelled context fails it
\* (database/sql checks ctx before using the connection), a live one lets
\* the backend answer: success or a fault
MayFail == IF faults < MaxFaults THEN Faults ELSE {}
CtxOutcomes(p) == IF Cancelled(p) THEN {"cancelled"} ELSE {NoErr} \cup MayFail

\* a backend error uses up one disturbance
Charge(e) == faults' = IF e \in Faults \cup {"translation"} THEN faults + 1 ELSE faults

\* The pool hands out an idle connection it has already opened; it opens a
\* new one only when none is idle.
InUse == {conn[q] : q \in Procs}
Idle == opened \ InUse
FreeConns == IF Idle /= {} THEN Idle
             ELSE IF Conns \ opened = {} THEN {}
             ELSE {CHOOSE c \in Conns \ opened : \A d \in Conns \ opened : c <= d}

Range(s) == {s[i] : i \in 1..Len(s)}

\* committed effects of batch b
DbEvents(b) == {e \in db.events : e.id = b}
DbKeys(b) == {k \in db.keys : k.id = b}
DbFields(b) == {f \in db.fields : f.id = b}

\* no effect of batch b is committed
Nothing(b) == DbEvents(b) = {} /\ DbKeys(b) = {} /\ DbFields(b) = {}

\* every effect of batch b, a batch of n commands, is committed
Full(b, n) ==
    /\ {e.idx : e \in DbEvents(b)} = 1..n
    /\ Cardinality(DbEvents(b)) = n
    /\ {k.key : k \in DbKeys(b)} = BatchKeys(n)
    /\ {f.idx : f \in DbFields(b)} = 1..n
ReservedKeys == {k.key : k \in db.keys}

\* keys reserved, uncommitted, by a transaction of another caller
PendingElsewhere(p) == UNION {tx[q].keys : q \in Procs \ {p}}

Init ==
    /\ pc = [p \in Procs |-> "idle"]
    /\ cmds = [p \in Procs |-> NoBatch]
    /\ calls = [p \in Procs |-> 0]
    /\ conn = [p \in Procs |-> NoConn]
    /\ opened = {}
    /\ ctx = [p \in Procs |-> "live"]
    /\ err = [p \in Procs |-> NoErr]
    /\ events = [p \in Procs |-> NilEvents]
    /\ ret = [p \in Procs |-> NilEvents]
    /\ tx = [p \in Procs |-> NoTx]
    /\ typeMap = [c \in Conns |-> FALSE]
    /\ regs = [c \in Conns |-> 0]
    /\ clientType \in {"cockroach", "postgres"}
    /\ db = [events |-> {}, keys |-> {}, fields |-> {}]
    /\ commitOrder = <<>>
    /\ clock = 0
    /\ prim = [p \in Procs |-> NoResult]
    /\ fb = [p \in Procs |-> NoResult]
    /\ res = [p \in Procs |-> NoResult]
    /\ fbCalls = [p \in Procs |-> 0]
    /\ steps = [p \in Procs |-> <<>>]
    /\ txEnd = [p \in Procs |-> <<>>]
    /\ connRel = [p \in Procs |-> 0]
    /\ faults = 0

\* ---------------------------------------------------------------- Push
\* A caller invokes Push(ctx, commands...).
PushCall(p) ==
    /\ pc[p] = "idle"
    /\ Pushes < MaxPushes
    /\ \E n \in 0..MaxCmds :
          cmds' = [cmds EXCEPT ![p] = [n |-> n, keys |-> BatchKeys(n)]]
    /\ calls' = [calls EXCEPT ![p] = @ + 1]
    /\ pc' = [pc EXCEPT ![p] = "conn"]
    /\ UNCHANGED <<conn, opened, ctx, err, events, ret, tx, typeMap, regs, clientType,
                   db, commitOrder, clock, prim, fb, res, fbCalls, steps,
                   txEnd, connRel, faults>>

\* The caller cancels the context of its running Push.
Cancel(p) ==
    /\ pc[p] \notin {"idle", "done"}
    /\ ctx[p] = "live"
    /\ faults < MaxFaults
    /\ faults' = faults + 1
    /\ ctx' = [ctx EXCEPT ![p] = CancelPoint(pc[p])]
    /\ UNCHANGED <<pc, cmds, calls, conn, opened, err, events, ret, tx, typeMap,
                   regs, clientType, db, commitOrder, clock, prim, fb, res,
                   fbCalls, steps, txEnd, connRel>>

\* ------------------------------------------------- Eventstore.writeEvents
\* Every step leaves the variables of the other callers alone.
Step(p, to) == pc' = [pc EXCEPT ![p] = to]
Log(p, s) == steps' = [steps EXCEPT ![p] = Append(@, s)]

\* the mutant of Fail: a failing step inside the transaction stores its error
\* but the function goes on to the field step
GoesOnAfterError(p, e, to) ==
    /\ err' = [err EXCEPT ![p] = e]
    /\ ret' = [ret EXCEPT ![p] = NilEvents]
    /\ Step(p, IF to = "deferTx" THEN "field" ELSE to)

\* `return nil, err`: the results are set and the deferred calls run next
Fail(p, e, to) ==
    /\ err' = [err EXCEPT ![p] = e]
    /\ ret' = [ret EXCEPT ![p] = NilEvents]
    /\ Step(p, to)

\* es.client.Conn(ctx): a free connection of the pool, or an error; on an
\* error nothing is deferred yet and Push gets (nil, err) at once
Conn(p) ==
    /\ pc[p] = "conn"
    /\ \E e \in CtxOutcomes(p) :
         /\ Charge(e)
         /\ IF e = NoErr
            THEN /\ \E c \in FreeConns :
                      /\ conn' = [conn EXCEPT ![p] = c]
                      /\ opened' = opened \cup {c}
                 /\ Step(p, "probe")
                 /\ Log(p, "conn")
                 /\ UNCHANGED <<err, ret, prim>>
            ELSE /\ Fail(p, e, "classify")
                 /\ prim' = [prim EXCEPT ![p] = [events |-> NilEvents, err |-> e]]
                 /\ UNCHANGED <<conn, opened, steps>>
    /\ UNCHANGED <<cmds, calls, ctx, events, tx, typeMap, regs, clientType,
                   db, commitOrder, clock, fb, res, fbCalls, txEnd, connRel>>

\* conn.TypeMap().TypeForValue(cmd): is *command known to the connection
TypeForValue(c) == typeMap[c]

\* registerEventstoreTypes(ctx, conn): loads the backend types and, if that
\* succeeded, registers them in the connection's type map
registerEventstoreTypes(p, c, e) ==
    IF e = NoErr
    THEN /\ typeMap' = [typeMap EXCEPT ![c] = TRUE]
         /\ regs' = [regs EXCEPT ![c] = @ + 1]
    ELSE UNCHANGED <<typeMap, regs>>

\* the mutant of ProbeSkips: the type map is not consulted
ProbeAlwaysRegisters(c) == FALSE

\* checkExecutionPlan returns nil without registering iff the type is known
ProbeSkips(c) == TypeForValue(c)

\* checkExecutionPlan(ctx, conn), and `return nil, err` when it fails
checkExecutionPlan(p) ==
    /\ pc[p] = "probe"
    /\ Log(p, "probe")
    /\ IF ProbeSkips(conn[p])
       THEN /\ Step(p, "begin")
            /\ UNCHANGED <<typeMap, regs, err, ret, faults>>
       ELSE \E e \in CtxOutcomes(p) :
              /\ Charge(e)
              /\ registerEventstoreTypes(p, conn[p], e)
              /\ IF e = NoErr
                 THEN Step(p, "begin") /\ UNCHANGED <<err, ret>>
                 ELSE Fail(p, e, "connClose")
    /\ UNCHANGED <<cmds, calls, conn, opened, ctx, events, tx, clientType, db,
                   commitOrder, clock, prim, fb, res, fbCalls, txEnd, connRel>>

\* conn.BeginTx(ctx, read committed, read-write)
BeginTx(p) ==
    /\ pc[p] = "begin"
    /\ Log(p, "begin")
    /\ \E e \in CtxOutcomes(p) :
         /\ Charge(e)
         /\ IF e = NoErr
            THEN /\ tx' = [tx EXCEPT ![p] =
                              [NoTx EXCEPT !.open = TRUE, !.opts = TxOptions,
                                           !.begun = tx[p].begun + 1]]
                   /\ Step(p, "insert")
                 /\ UNCHANGED <<err, ret>>
            ELSE /\ Fail(p, e, "connClose")
                 /\ UNCHANGED tx
    /\ UNCHANGED <<cmds, calls, conn, opened, ctx, events, typeMap, regs,
                   clientType, db, commitOrder, clock, prim, fb, res, fbCalls,
                   txEnd, connRel>>

\* commandsToEvents: one event per command, in order, ordering fields unset
commandsToEvents(n) == [i \in 1..n |-> ZeroEvent]

\* the rows push2Stmt answers with: creation time, sequence and position of
\* each inserted event, in input order; the position source only grows
BackendRow(i, clk) == [createdAt |-> clk + 1, sequence |-> i, position |-> clk + i]

\* the loop over rows.Next(): row i is scanned into events[i]; events the
\* answer has no row for keep their zero fields
Scan(evs, r, clk) ==
    [i \in 1..Len(evs) |-> IF i <= r THEN BackendRow(i, clk) ELSE evs[i]]

\* the positions the batched insert gives the n events of a batch
InsertedPositions(n, clk) == [i \in 1..n |-> clk + i]

\* writeEvents(ctx, tx, commands): translation, the batched insert, the scan
writeEvents(p) ==
    /\ pc[p] = "insert"
    /\ LET n == cmds[p].n IN
       \/ \* commandsToEvents fails: no statement is sent
          /\ n > 0 /\ faults < MaxFaults
          /\ Charge("translation")
          /\ Fail(p, "translation", "deferTx")
          /\ UNCHANGED <<tx, clock, events, steps>>
       \/ \* tx.QueryContext fails
          /\ \E e \in CtxOutcomes(p) \ {NoErr} :
               /\ Charge(e)
               /\ Fail(p, e, "deferTx")
               /\ IF e = "cancelled" THEN UNCHANGED steps ELSE Log(p, "insert")
          /\ UNCHANGED <<tx, clock, events>>
       \/ \* the insert is executed; rows.Scan or rows.Err fails
          /\ ~Cancelled(p) /\ faults < MaxFaults
          /\ Charge("backend")
          /\ Log(p, "insert")
          /\ tx' = [tx EXCEPT ![p].events = InsertedPositions(n, clock)]
          /\ clock' = clock + n
          /\ Fail(p, "backend", "deferTx")
          /\ UNCHANGED events
       \/ \* the insert is executed and answers with r rows
          /\ ~Cancelled(p)
          /\ Log(p, "insert")
          /\ tx' = [tx EXCEPT ![p].events = InsertedPositions(n, clock)]
          /\ clock' = clock + n
          /\ \E r \in (IF faults < MaxFaults THEN 0..n ELSE {n}) :
               /\ events' = [events EXCEPT ![p] =
                                Some(Scan(commandsToEvents(n), r, clock))]
               /\ faults' = IF r < n THEN faults + 1 ELSE faults
          /\ Step(p, "unique")
          /\ UNCHANGED <<err, ret>>
    /\ UNCHANGED <<cmds, calls, conn, opened, ctx, typeMap, regs, clientType, db,
                   commitOrder, prim, fb, res, fbCalls, txEnd, connRel>>

\* the mutant of NeedsMultipleModifications: the setting is sent to every
\* backend
SetOnEveryBackend(t) == TRUE

\* `if es.client.Type() == "cockroach"`
NeedsMultipleModifications(t) == t = "cockroach"

\* handleUniqueConstraints(ctx, tx, commands): reserves every key of the
\* batch in the transaction; a key that is committed fails the step, a key
\* another open transaction holds makes the step wait for that transaction
handleUniqueConstraints(p) ==
    /\ pc[p] = "unique"
    /\ Log(p, "unique")
    /\ LET ks == cmds[p].keys
           next == IF NeedsMultipleModifications(clientType)
                   THEN "setvar" ELSE "field" IN
       IF Cancelled(p)
       THEN Fail(p, "cancelled", "deferTx") /\ UNCHANGED <<tx, faults>>
       ELSE /\ ks \cap PendingElsewhere(p) = {}
            /\ IF ks \cap ReservedKeys /= {}
               THEN Fail(p, "uniqueViolation", "deferTx") /\ UNCHANGED <<tx, faults>>
               ELSE \/ /\ tx' = [tx EXCEPT ![p].keys = ks]
                       /\ Step(p, next)
                       /\ UNCHANGED <<err, ret, faults>>
                    \/ /\ \E e \in MayFail : Charge(e) /\ Fail(p, e, "deferTx")
                       /\ UNCHANGED tx
    /\ UNCHANGED <<cmds, calls, conn, opened, ctx, events, typeMap, regs,
                   clientType, db, commitOrder, clock, prim, fb, res, fbCalls,
                   txEnd, connRel>>

\* tx.Exec("SET enable_multiple_modifications_of_table = on"), reached only
\* on cockroach.  Exec is not given ctx: after a cancellation the statement
\* either still runs or finds the transaction already rolled back.
SetMultipleModifications(p) ==
    /\ pc[p] = "setvar"
    /\ Log(p, "setvar")
    /\ \E e \in (IF Cancelled(p) THEN {NoErr, "txDone"} ELSE {NoErr} \cup MayFail) :
         /\ Charge(e)
         /\ IF e = NoErr
            THEN Step(p, "field") /\ UNCHANGED <<err, ret>>
            ELSE Fail(p, e, "deferTx")
    /\ UNCHANGED <<cmds, calls, conn, opened, ctx, events, tx, typeMap, regs,
                   clientType, db, commitOrder, clock, prim, fb, res, fbCalls,
                   txEnd, connRel>>

\* handleFieldCommands(ctx, tx, commands), then `return events, nil`
handleFieldCommands(p) ==
    /\ pc[p] = "field"
    /\ Log(p, "field")
    /\ \E e \in CtxOutcomes(p) :
         /\ Charge(e)
         /\ IF e = NoErr
            THEN /\ tx' = [tx EXCEPT ![p].fields = 1..cmds[p].n]
                 /\ err' = [err EXCEPT ![p] = NoErr]
                 /\ ret' = [ret EXCEPT ![p] = events[p]]
                 /\ Step(p, "deferTx")
            ELSE Fail(p, e, "deferTx") /\ UNCHANGED tx
    /\ UNCHANGED <<cmds, calls, conn, opened, ctx, events, typeMap, regs,
                   clientType, db, commitOrder, clock, prim, fb, res, fbCalls,
                   txEnd, connRel>>

\* ------------------------------------------------- the deferred calls
\* the pending effects of p's transaction become the committed ones
Committed(p) ==
    [events |-> db.events \cup
                  {[id |-> Id(p), idx |-> i, pos |-> tx[p].events[i]] :
                       i \in 1..Len(tx[p].events)},
     keys |-> db.keys \cup {[key |-> k, id |-> Id(p)] : k \in tx[p].keys},
     fields |-> db.fields \cup {[id |-> Id(p), idx |-> i] : i \in tx[p].fields}]

\* the mutant of RollsBack: the deferred function commits whatever err is
NeverRollsBack(e) == FALSE

\* `if err != nil { _ = tx.Rollback(); return }`
RollsBack(e) == e /= NoErr

\* the mutant of RollbackErr: a failed rollback replaces the step's error
RollbackEscalated(e, r) == IF r /= NoErr THEN r ELSE e

\* `_ = tx.Rollback(); return`: the rollback's error r is discarded and the
\* named result keeps the error e of the step that failed
RollbackErr(e, r) == e

\* the mutant of CommitErr: the commit error is dropped after logging
CommitErrSwallowed(e) == NoErr

\* `err = tx.Commit()`: err is the function's named result, so what Commit
\* returns is what Eventstore.writeEvents returns; logging does not change it
CommitErr(e) == e

\* what tx.Commit() can return.  The transaction is bound to ctx by BeginTx:
\* once ctx is cancelled database/sql rolls the transaction back and Commit
\* returns the context's error, or ErrTxDone if the rollback has already run.
CommitOutcomes(p) ==
    IF Cancelled(p) THEN {"cancelled", "txDone"} ELSE {NoErr} \cup MayFail

\* the deferred function of Eventstore.writeEvents
DeferTx(p) ==
    /\ pc[p] = "deferTx"
    /\ IF RollsBack(err[p])
       THEN \* tx.Rollback(); its error is discarded
            /\ \E e \in {NoErr, "backend"} :
                 /\ txEnd' = [txEnd EXCEPT ![p] =
                                 Append(@, [op |-> "rollback", err |-> e,
                                            cause |-> err[p]])]
                 /\ err' = [err EXCEPT ![p] = RollbackErr(err[p], e)]
            /\ UNCHANGED faults
            /\ Log(p, "rollback")
            /\ UNCHANGED <<db, commitOrder>>
       ELSE \* tx.Commit()
            /\ Log(p, "commit")
            /\ \E e \in CommitOutcomes(p) :
                 /\ Charge(e)
                 /\ err' = [err EXCEPT ![p] = CommitErr(e)]
                 /\ txEnd' = [txEnd EXCEPT ![p] =
                                 Append(@, [op |-> "commit", err |-> e,
                                            cause |-> err[p]])]
                 /\ IF e = NoErr
                    THEN /\ db' = Committed(p)
                         /\ commitOrder' = Append(commitOrder, Id(p))
                    ELSE UNCHANGED <<db, commitOrder>>
    /\ tx' = [tx EXCEPT ![p] = [NoTx EXCEPT !.begun = tx[p].begun]]
    /\ Step(p, "connClose")
    /\ UNCHANGED <<cmds, calls, conn, opened, ctx, events, ret, typeMap, regs,
                   clientType, clock, prim, fb, res, fbCalls, connRel>>

\* the mutant of Close: the caller keeps the connection
CloseKeepsConn(c) == c

\* conn.Close(): what the caller holds afterwards
Close(c) == NoConn

\* `defer conn.Close()`: the connection goes back to the pool, and
\* Eventstore.writeEvents hands its results to Push
ConnClose(p) ==
    /\ pc[p] = "connClose"
    /\ conn' = [conn EXCEPT ![p] = Close(conn[p])]
    /\ connRel' = [connRel EXCEPT ![p] = @ + 1]
    /\ Log(p, "close")
    /\ prim' = [prim EXCEPT ![p] = [events |-> ret[p], err |-> err[p]]]
    /\ Step(p, "classify")
    /\ UNCHANGED <<cmds, calls, opened, ctx, err, events, ret, tx, typeMap, regs,
                   clientType, db, commitOrder, clock, fb, res, fbCalls, txEnd,
                   faults>>

\* ---------------------------------------------------------------- Push
\* isSetupNotExecutedError(err): the error class of a backend on which the
\* setup (the type eventstore.command, the function eventstore.push) is missing
isSetupNotExecutedError(e) == e = "setupNotExecuted"

\* a mutant of UsesFallback: the fallback runs after every primary attempt
FallbackAlways(e) == TRUE

\* a mutant of UsesFallback: the error is returned without classification
NeverFallsBack(e) == FALSE

\* the mutant of UsesFallback: every error of the primary path is retried
FallbackOnAnyError(e) == e /= NoErr

\* `if isSetupNotExecutedError(err) { return es.pushWithoutFunc(...) }`
UsesFallback(e) == isSetupNotExecutedError(e)

\* Push after es.writeEvents returned
Classify(p) ==
    /\ pc[p] = "classify"
    /\ IF UsesFallback(prim[p].err)
       THEN Step(p, "fallback") /\ UNCHANGED res
       ELSE Step(p, "done") /\ res' = [res EXCEPT ![p] = prim[p]]
    /\ UNCHANGED <<cmds, calls, conn, opened, ctx, err, events, ret, tx, typeMap,
                   regs, clientType, db, commitOrder, clock, prim, fb, fbCalls,
                   steps, txEnd, connRel, faults>>

\* es.pushWithoutFunc(ctx, commands...): the append without the backend
\* function, in a transaction of its own: the whole batch or nothing
pushWithoutFunc(p) ==
    /\ pc[p] = "fallback"
    /\ fbCalls' = [fbCalls EXCEPT ![p] = @ + 1]
    /\ LET n == cmds[p].n
           ks == cmds[p].keys
           done(r) == /\ fb' = [fb EXCEPT ![p] = r]
                      /\ res' = [res EXCEPT ![p] = r]
                      /\ Step(p, "done")
           failed(e) == /\ done([events |-> NilEvents, err |-> e])
                        /\ UNCHANGED <<db, commitOrder, clock>> IN
       IF Cancelled(p)
       THEN failed("cancelled")
       ELSE /\ ks \cap PendingElsewhere(p) = {}
            /\ IF ks \cap ReservedKeys /= {}
               THEN failed("uniqueViolation")
               ELSE \/ failed("backend")
                    \/ /\ db' = [events |-> db.events \cup
                                     {[id |-> Id(p), idx |-> i, pos |-> clock + i] :
                                          i \in 1..n},
                                 keys |-> db.keys \cup
                                     {[key |-> k, id |-> Id(p)] : k \in ks},
                                 fields |-> db.fields \cup
                                     {[id |-> Id(p), idx |-> i] : i \in 1..n}]
                       /\ commitOrder' = Append(commitOrder, Id(p))
                       /\ clock' = clock + n
                       /\ done([events |-> Some([i \in 1..n |-> BackendRow(i, clock)]),
                                err |-> NoErr])
    /\ UNCHANGED <<cmds, calls, conn, opened, ctx, err, events, ret, tx, typeMap,
                   regs, clientType, prim, steps, txEnd, connRel, faults>>

\* Push has returned; the caller may call Push again
Return(p) ==
    /\ pc[p] = "done"
    /\ pc' = [pc EXCEPT ![p] = "idle"]
    /\ cmds' = [cmds EXCEPT ![p] = NoBatch]
    /\ ctx' = [ctx EXCEPT ![p] = "live"]
    /\ err' = [err EXCEPT ![p] = NoErr]
    /\ events' = [events EXCEPT ![p] = NilEvents]
    /\ ret' = [ret EXCEPT ![p] = NilEvents]
    /\ prim' = [prim EXCEPT ![p] = NoResult]
    /\ fb' = [fb EXCEPT ![p] = NoResult]
    /\ res' = [res EXCEPT ![p] = NoResult]
    /\ fbCalls' = [fbCalls EXCEPT ![p] = 0]
    /\ steps' = [steps EXCEPT ![p] = <<>>]
    /\ txEnd' = [txEnd EXCEPT ![p] = <<>>]
    /\ connRel' = [connRel EXCEPT ![p] = 0]
    /\ tx' = [tx EXCEPT ![p] = NoTx]
    /\ UNCHANGED <<calls, conn, opened, typeMap, regs, clientType, db,
                   commitOrder, clock, faults>>

Next ==
    \E p \in Procs :
        \/ PushCall(p)
        \/ Cancel(p)
        \/ Conn(p)
        \/ checkExecutionPlan(p)
        \/ BeginTx(p)
        \/ writeEvents(p)
        \/ handleUniqueConstraints(p)
        \/ SetMultipleModifications(p)
        \/ handleFieldCommands(p)
        \/ DeferTx(p)
        \/ ConnClose(p)
        \/ Classify(p)
        \/ pushWithoutFunc(p)
        \/ Return(p)

Spec == Init /\ [][Next]_vars

\* ---------------------------------------------------------------- claims
Running(p) == pc[p] /= "idle"
Returned(p) == pc[p] = "done"
\* Eventstore.writeEvents has returned to Push
PrimaryReturned(p) == pc[p] \in {"classify", "fallback", "done"}
CommitFailed(p) ==
    Len(txEnd[p]) = 1 /\ txEnd[p][1].op = "commit" /\ txEnd[p][1].err /= NoErr
CommitSucceeded(p) ==
    Len(txEnd[p]) = 1 /\ txEnd[p][1].op = "commit" /\ txEnd[p][1].err = NoErr
RolledBack(p) == Len(txEnd[p]) = 1 /\ txEnd[p][1].op = "rollback"

\* C1: Push invokes pushWithoutFunc at most once, and exactly when the error
\* of es.writeEvents is classified as setup-not-executed; otherwise Push
\* returns what es.writeEvents returned, and after a fallback it returns
\* what pushWithoutFunc returned, without another attempt.
C1_FallbackExactlyOnSetupError ==
    \A p \in Procs :
        /\ fbCalls[p] <= 1
        /\ pc[p] = "fallback" => fbCalls[p] = 0 /\ isSetupNotExecutedError(prim[p].err)
        /\ Returned(p) =>
              /\ fbCalls[p] = 1 <=> isSetupNotExecutedError(prim[p].err)
              /\ fbCalls[p] = 0 => res[p] = prim[p]
              /\ fbCalls[p] = 1 => res[p] = fb[p]

\* a Push that fell back and returned the fallback's events, and another
\* primary error was returned as is
C1_Witness ==
    \E p \in Procs :
        /\ Returned(p) /\ fbCalls[p] = 1
        /\ prim[p].err = "setupNotExecuted"
        /\ res[p] = fb[p] /\ res[p].err = NoErr /\ Len(res[p].events.list) = 2

\* C2: the committed store holds the effects of a batch in full (all events,
\* all reservations, all projections) or not at all; once a step of the
\* primary path failed and the deferred rollback ran, nothing of the batch
\* is committed.
C2_AllOrNothing ==
    /\ \A b \in Ids : \E n \in 0..MaxCmds : Full(b, n)
    /\ \A p \in Procs :
          /\ Running(p) => Nothing(Id(p)) \/ Full(Id(p), cmds[p].n)
          /\ pc[p] \in {"connClose", "classify"} /\ err[p] /= NoErr => Nothing(Id(p))
          /\ Returned(p) /\ res[p].err /= NoErr => Nothing(Id(p))

\* the field step failed after the insert and the reservations were pending,
\* the rollback ran, and nothing of the batch is committed
C2_Witness ==
    \E p \in Procs :
        /\ pc[p] = "connClose" /\ RolledBack(p)
        /\ cmds[p].n = 2
        /\ steps[p][Len(steps[p]) - 1] = "field"
        /\ Nothing(Id(p))

\* an event whose ordering fields the backend filled in
Populated(e) == e.createdAt > 0 /\ e.sequence > 0 /\ e.position > 0

\* the batched insert answered with a row for every command
AllScanned(p) ==
    ~events[p].nil /\ \A i \in 1..Len(events[p].list) : Populated(events[p].list[i])

\* C3 as stated: when insert, constraint and field step succeeded and the
\* commit fails, the commit error is swallowed: es.writeEvents and Push
\* return the events with no error.
C3_CommitErrorSwallowed ==
    \A p \in Procs :
        PrimaryReturned(p) /\ CommitFailed(p) /\ AllScanned(p) =>
            /\ prim[p].err = NoErr /\ ~prim[p].events.nil
            /\ Returned(p) => res[p].err = NoErr /\ ~res[p].events.nil

\* C3 amended: when insert, constraint and field step succeeded and the
\* commit fails, es.writeEvents returns the scanned events together with the
\* commit's error (nothing of the batch is committed), and Push returns both
\* to its caller unless the error is classified as setup-not-executed.
C3_CommitErrorReturned ==
    \A p \in Procs :
        PrimaryReturned(p) /\ CommitFailed(p) =>
            /\ prim[p].err = txEnd[p][1].err
            /\ prim[p].events = events[p] /\ ~prim[p].events.nil
            /\ Len(prim[p].events.list) = cmds[p].n
            /\ pc[p] = "classify" => Nothing(Id(p))
            /\ Returned(p) /\ ~isSetupNotExecutedError(prim[p].err) => res[p] = prim[p]

\* a Push of two commands whose commit failed returned its two events and
\* the commit's error
C3_Witness ==
    \E p \in Procs :
        /\ Returned(p) /\ CommitFailed(p)
        /\ res[p].err = "backend" /\ Len(res[p].events.list) = 2

\* C4 as stated: a Push of zero commands sends no batched insert and no
\* constraint or projection statement, and, the backend being sound, returns
\* an empty result with no error.
C4_EmptyBatchNoBackendCall ==
    \A p \in Procs :
        Running(p) /\ cmds[p].n = 0 =>
            /\ Range(steps[p]) \cap {"insert", "unique", "setvar", "field"} = {}
            /\ Returned(p) /\ faults = 0 =>
                  res[p] = [events |-> Some(<<>>), err |-> NoErr]

\* C5 as stated: a Push of N > 0 commands that returns no error returns N
\* events, all populated, with sequence and position strictly increasing,
\* however many rows the batched insert answered with.
C5_SuccessMeansPopulated ==
    \A p \in Procs :
        Returned(p) /\ cmds[p].n > 0 /\ res[p].err = NoErr =>
            LET l == res[p].events.list IN
            /\ ~res[p].events.nil /\ Len(l) = cmds[p].n
            /\ \A i \in 1..Len(l) : Populated(l[i])
            /\ \A i \in 1..Len(l) - 1 :
                  l[i].sequence < l[i + 1].sequence /\ l[i].position < l[i + 1].position

\* two callers whose Push calls have both returned and whose batches claim a
\* common key
Rivals(p, q) ==
    /\ p /= q /\ Returned(p) /\ Returned(q)
    /\ cmds[p].keys \cap cmds[q].keys /= {}

\* no batch other than those of p and q holds a key that p and q both claim
NoThirdHolder(p, q) ==
    \A k \in db.keys :
        k.key \in cmds[p].keys \cap cmds[q].keys => k.id \in {Id(p), Id(q)}

\* C6: of two batches that claim the same key and are pushed concurrently,
\* never both succeed, and the batch of a Push that failed has no committed
\* event, reservation or projection; when nothing else goes wrong (no
\* backend error, no cancellation, the key not held by an earlier batch),
\* exactly one Push succeeds and the other fails with the unique-constraint
\* violation.
C6_OneWinnerPerKey ==
    \A p, q \in Procs :
        Rivals(p, q) =>
            /\ ~(res[p].err = NoErr /\ res[q].err = NoErr)
            /\ res[p].err /= NoErr => Nothing(Id(p))
            /\ res[p].err = NoErr => Full(Id(p), cmds[p].n)
            /\ {res[p].err, res[q].err} \subseteq {NoErr, "uniqueViolation"}
                 /\ NoThirdHolder(p, q)
                 => {res[p].err, res[q].err} = {NoErr, "uniqueViolation"}

\* q inserted its events first, p inserted, reserved the key and committed
\* while q's transaction was open, and q then failed on the key: p's batch is
\* committed, q's is not
C6_Witness ==
    \E p, q \in Procs :
        /\ Rivals(p, q)
        /\ res[p].err = NoErr /\ res[q].err = "uniqueViolation"
        /\ fbCalls[p] = 0 /\ fbCalls[q] = 0
        /\ ~events[q].nil /\ AllScanned(q) /\ AllScanned(p)
        /\ events[q].list[1].position < events[p].list[1].position
        /\ Full(Id(p), 2) /\ Nothing(Id(q))

\* the points of a cancellation that lie after BeginTx and before the commit
\* is issued
BeforeCommit == {"insert", "unique", "setvar", "field", "deferTx"}

\* C7 as stated: a cancellation at any point after the transaction has begun
\* and before Push returns makes Push return the cancellation error and
\* leaves nothing of the batch committed (the cancellation being the only
\* disturbance of the run).
C7_CancelAlwaysAborts ==
    \A p \in Procs :
        /\ Returned(p) /\ txEnd[p] /= <<>> /\ faults = 1
        /\ ctx[p] \in BeforeCommit \cup {"afterTx"}
        => res[p].err = "cancelled" /\ Nothing(Id(p))

\* C7 amended: a cancellation after the transaction has begun and before the
\* commit is issued makes the primary path and Push fail and leaves nothing
\* of the batch committed, but the error is that of the call that noticed it
\* (the cancellation error, or transaction-already-done from the SET
\* statement or the commit, which are not given the context); a Push that
\* returns the cancellation error has committed nothing; a cancellation
\* after a successful commit leaves Push successful and the batch committed.
C7_CancelBeforeCommitAborts ==
    \A p \in Procs :
        /\ PrimaryReturned(p) /\ ctx[p] \in BeforeCommit =>
              /\ prim[p].err /= NoErr
              /\ ~CommitSucceeded(p)
              /\ pc[p] = "classify" => Nothing(Id(p))
        /\ Returned(p) /\ ctx[p] \in BeforeCommit =>
              res[p].err /= NoErr /\ Nothing(Id(p))
        /\ Returned(p) /\ res[p].err = "cancelled" => Nothing(Id(p))
        /\ Returned(p) /\ ctx[p] = "afterTx" /\ CommitSucceeded(p) =>
              res[p].err = NoErr /\ Full(Id(p), cmds[p].n)

\* the context was cancelled between the field step and the commit: the
\* commit failed, Push returned its error, nothing is committed
C7_Witness ==
    \E p \in Procs :
        /\ Returned(p) /\ ctx[p] = "deferTx" /\ CommitFailed(p)
        /\ cmds[p].n = 2
        /\ res[p].err \in {"cancelled", "txDone"}
        /\ Nothing(Id(p))

\* the probe of the running Push failed: registerEventstoreTypes returned an
\* error and Eventstore.writeEvents returned it
RegistrationFailed(p) ==
    /\ PrimaryReturned(p)
    /\ steps[p] = <<"conn", "probe", "close">>

\* C8 as stated: a registration failure is always returned to the caller of
\* Push and never triggers the fallback, whatever the error is.
C8_RegistrationFailureNeverFallsBack ==
    \A p \in Procs :
        RegistrationFailed(p) =>
            /\ pc[p] /= "fallback" /\ fbCalls[p] = 0
            /\ Returned(p) => res[p] = prim[p]

\* C8 amended: after a registration failure no transaction is begun and
\* es.writeEvents returns (nil, the registration error); Push returns it to
\* the caller unless the error is classified as setup-not-executed, in which
\* case Push invokes the fallback once and returns its result, exactly as
\* for such an error of any later step.
C8_RegistrationFailureClassified ==
    \A p \in Procs :
        RegistrationFailed(p) =>
            /\ prim[p].events.nil /\ prim[p].err /= NoErr
            /\ txEnd[p] = <<>> /\ "begin" \notin Range(steps[p])
            /\ fbCalls[p] = 0 => Nothing(Id(p))
            /\ Returned(p) =>
                  IF isSetupNotExecutedError(prim[p].err)
                  THEN fbCalls[p] = 1 /\ res[p] = fb[p]
                  ELSE fbCalls[p] = 0 /\ res[p] = prim[p]

\* a registration failed with the setup-not-executed error and Push fell
\* back
C8_Witness ==
    \E p \in Procs :
        /\ RegistrationFailed(p) /\ Returned(p)
        /\ prim[p].err = "setupNotExecuted"
        /\ fbCalls[p] = 1 /\ res[p].err = NoErr /\ cmds[p].n > 0

\* the probe of the running Push returned an error
ProbeFailed(p) == pc[p] = "connClose" /\ steps[p] = <<"conn", "probe">>

\* C9: on one connection the types are registered at most once; the type
\* map knows the type exactly after that registration, and a probe fails
\* only on a connection that was never registered: a connection that is
\* known-capable is probed without registration and without error.
C9_ProbeIdempotent ==
    /\ \A c \in Conns : regs[c] <= 1 /\ (typeMap[c] <=> regs[c] = 1)
    /\ \A p \in Procs : ProbeFailed(p) => regs[conn[p]] = 0 /\ ~typeMap[conn[p]]

\* the second Push of a caller got the connection the first one registered
\* the types on, and its probe passed without another registration
C9_Witness ==
    \E p \in Procs :
        /\ calls[p] = 2 /\ pc[p] = "begin" /\ faults = 0
        /\ opened = {conn[p]}
        /\ regs[conn[p]] = 1

\* C10 as stated: positions follow commit order: every event of a batch
\* that committed earlier has a smaller position than every event of a batch
\* that committed later, and no two committed events share a position.
C10_PositionsFollowCommitOrder ==
    /\ \A i, j \in 1..Len(commitOrder) :
          i < j => \A e \in DbEvents(commitOrder[i]) :
                     \A f \in DbEvents(commitOrder[j]) : e.pos < f.pos
    /\ \A e, f \in db.events : e /= f => e.pos /= f.pos

\* the rollback of the running Push returned an error
RollbackFailed(p) == RolledBack(p) /\ txEnd[p][1].err /= NoErr

\* C11: when a step of the primary path failed and the rollback that follows
\* fails too, es.writeEvents returns the error of the step, not that of the
\* rollback, with a nil event list, and Push hands that on to its caller
\* unless the step's error is classified as setup-not-executed.
C11_RollbackFailureNotEscalated ==
    \A p \in Procs :
        PrimaryReturned(p) /\ RollbackFailed(p) =>
            /\ txEnd[p][1].cause /= NoErr
            /\ prim[p] = [events |-> NilEvents, err |-> txEnd[p][1].cause]
            /\ Returned(p) /\ ~isSetupNotExecutedError(prim[p].err) =>
                  res[p] = prim[p]

\* the constraint step failed on a committed key after the insert had
\* scanned its rows, the rollback failed with another error, and Push
\* returned the violation with no events
C11_Witness ==
    \E p \in Procs :
        /\ Returned(p) /\ RollbackFailed(p)
        /\ txEnd[p][1].err = "backend"
        /\ AllScanned(p) /\ cmds[p].n = 2
        /\ res[p] = [events |-> NilEvents, err |-> "uniqueViolation"]

\* C12 as stated: whenever es.writeEvents hands a non-nil event list back to
\* Push, the transaction of the batch has committed and every event of the
\* list is populated; whenever the transaction did not commit, the list is
\* nil.
C12_EventsOnlyAfterCommit ==
    \A p \in Procs :
        PrimaryReturned(p) /\ cmds[p].n > 0 =>
            /\ ~prim[p].events.nil =>
                  /\ CommitSucceeded(p)
                  /\ \A i \in 1..Len(prim[p].events.list) :
                        Populated(prim[p].events.list[i])
            /\ ~CommitSucceeded(p) => prim[p].events.nil

\* the steps of one primary attempt, in the order of the source
PrimarySteps == <<"probe", "begin", "insert", "unique", "field", "commit">>
IsPrimaryStep(s) == s \in Range(PrimarySteps)
IsPrefix(s, t) == Len(s) <= Len(t) /\ \A i \in 1..Len(s) : s[i] = t[i]
\* the statements sent inside the transaction, and the calls that end it
TxStatements == {"insert", "unique", "setvar", "field"}
TxEnds == {"commit", "rollback"}

\* C13: the steps of a primary attempt run in the order probe, begin (read
\* committed, read-write), insert, constraints, fields, commit, and a step
\* runs only while no earlier step has failed: no statement is sent in a
\* transaction and none is ended when the probe or the begin failed, the
\* step after a failed one is the rollback, and the commit is issued only
\* after the field step succeeded.
C13_FixedOrderFailFast ==
    \A p \in Procs :
        /\ IsPrefix(SelectSeq(steps[p], IsPrimaryStep), PrimarySteps)
        /\ pc[p] \in {"probe", "begin", "insert"} \cup TxStatements => err[p] = NoErr
        /\ tx[p].open => tx[p].opts = [Isolation |-> "LevelReadCommitted",
                                       ReadOnly |-> FALSE]
        /\ Range(steps[p]) \cap (TxStatements \cup TxEnds) /= {} =>
              "begin" \in Range(steps[p])
        /\ PrimaryReturned(p) /\ txEnd[p] = <<>> =>
              Range(steps[p]) \cap (TxStatements \cup TxEnds) = {}
        /\ \A i \in 1..Len(steps[p]) :
              steps[p][i] \in TxEnds =>
                  \A j \in i + 1..Len(steps[p]) : steps[p][j] = "close"
        /\ RolledBack(p) =>
              /\ txEnd[p][1].cause /= NoErr
              /\ "commit" \notin Range(steps[p])
        /\ "commit" \in Range(steps[p]) =>
              /\ txEnd[p][1].cause = NoErr
              /\ \E i \in 2..Len(steps[p]) :
                    steps[p][i] = "commit" /\ steps[p][i - 1] = "field"
              /\ "rollback" \notin Range(steps[p])

\* one attempt ran every step and committed, and another stopped at the
\* constraint step, which failed after the insert: it was rolled back
\* without a field step
C13_Witness ==
    \E p, q \in Procs :
        /\ Returned(p) /\ clientType = "postgres"
        /\ steps[p] = <<"conn", "probe", "begin", "insert", "unique", "field",
                        "commit", "close">>
        /\ Returned(q)
        /\ steps[q] = <<"conn", "probe", "begin", "insert", "unique",
                        "rollback", "close">>

\* the call p issued last
LastStep(p) == IF steps[p] = <<>> THEN "none" ELSE steps[p][Len(steps[p])]

\* C14: the statement that permits multiple modifications of a table is
\* sent exactly on cockroach: there it follows the successful constraint
\* step inside the open transaction and precedes the field step, and when
\* it fails the rollback follows and no field step runs; on any other
\* backend the field step follows the constraint step directly and the
\* statement is never sent.
C14_SettingOnlyOnCockroach ==
    \A p \in Procs :
        /\ clientType /= "cockroach" => "setvar" \notin Range(steps[p]) /\ pc[p] /= "setvar"
        /\ pc[p] = "setvar" =>
              LastStep(p) = "unique" /\ tx[p].open /\ err[p] = NoErr
        /\ pc[p] = "field" =>
              LastStep(p) = (IF clientType = "cockroach" THEN "setvar" ELSE "unique")
        /\ \A i \in 1..Len(steps[p]) :
              /\ steps[p][i] = "setvar" =>
                    /\ i > 1 /\ steps[p][i - 1] = "unique"
                    /\ i < Len(steps[p]) => steps[p][i + 1] \in {"field", "rollback"}
              /\ steps[p][i] = "field" =>
                    /\ i > 1
                    /\ steps[p][i - 1] =
                          (IF clientType = "cockroach" THEN "setvar" ELSE "unique")
              /\ steps[p][i] = "unique" /\ i < Len(steps[p]) =>
                    steps[p][i + 1] \in
                        {IF clientType = "cockroach" THEN "setvar" ELSE "field",
                         "rollback"}
        /\ PrimaryReturned(p) /\ RolledBack(p) /\ fbCalls[p] = 0 => Nothing(Id(p))

\* on cockroach one Push sent the statement between the constraint and the
\* field step and committed, and in another the statement failed: rollback,
\* no field step, nothing committed
C14_Witness ==
    \E p, q \in Procs :
        /\ clientType = "cockroach"
        /\ Returned(p)
        /\ steps[p] = <<"conn", "probe", "begin", "insert", "unique", "setvar",
                        "field", "commit", "close">>
        /\ Returned(q) /\ RolledBack(q)
        /\ steps[q] = <<"conn", "probe", "begin", "insert", "unique", "setvar",
                        "rollback", "close">>
        /\ res[q].err = "backend" /\ res[q].events.nil /\ Nothing(Id(q))

\* connections the running Push of p has acquired
Acquired(p) == IF "conn" \in Range(steps[p]) THEN 1 ELSE 0

\* C15: es.writeEvents leaks neither a transaction nor a connection: when
\* it has returned, every transaction it began has been ended by exactly one
\* call, a rollback if a step had failed and a commit otherwise, and every
\* connection it acquired has been released exactly once, after the end of
\* the transaction; while it runs it holds at most one of each, and no
\* connection is held by two callers.
C15_NoLeak ==
    /\ \A p \in Procs :
          /\ Len(txEnd[p]) <= 1 /\ connRel[p] <= 1 /\ tx[p].begun <= 1
          /\ tx[p].open => conn[p] /= NoConn /\ txEnd[p] = <<>> /\ tx[p].begun = 1
          /\ conn[p] /= NoConn => connRel[p] = 0 /\ Acquired(p) = 1
          /\ txEnd[p] /= <<>> =>
                (txEnd[p][1].op = "rollback" <=> txEnd[p][1].cause /= NoErr)
          /\ PrimaryReturned(p) \/ pc[p] = "idle" =>
                /\ ~tx[p].open /\ conn[p] = NoConn
                /\ Len(txEnd[p]) = tx[p].begun
                /\ connRel[p] = Acquired(p)
                /\ \A i \in 1..Len(steps[p]) :
                      steps[p][i] = "close" => i = Len(steps[p])
    /\ \A p, q \in Procs : p /= q /\ conn[p] /= NoConn => conn[p] /= conn[q]

\* a Push whose commit failed has returned: its transaction was ended by
\* that one call and its connection was released once, as the last call
C15_Witness ==
    \E p \in Procs :
        /\ Returned(p) /\ CommitFailed(p)
        /\ tx[p].begun = 1 /\ connRel[p] = 1 /\ conn[p] = NoConn
        /\ steps[p][Len(steps[p])] = "close"

\* the committed events of command i of batch b
DurableEvents(b, i) == {e \in DbEvents(b) : e.idx = i}

\* C16: a batch is appended durably at most once per Push.  When Push
\* invokes pushWithoutFunc, the transaction of the primary attempt, if one
\* was begun, has been ended without a successful commit and the connection
\* has been released, so nothing of the batch is committed at that point; no
\* command ever has two committed events and no batch commits twice,
\* wherever the setup-not-executed error came from, the commit included.
C16_AppendedAtMostOnce ==
    /\ \A p \in Procs :
          /\ pc[p] = "fallback" =>
                /\ Nothing(Id(p))
                /\ ~tx[p].open /\ Len(txEnd[p]) = tx[p].begun
                /\ conn[p] = NoConn /\ connRel[p] = Acquired(p)
          /\ fbCalls[p] > 0 \/ pc[p] = "fallback" =>
                /\ ~CommitSucceeded(p)
                /\ isSetupNotExecutedError(prim[p].err)
          /\ Running(p) => Cardinality(DbEvents(Id(p))) <= cmds[p].n
    /\ \A b \in Ids : \A i \in 1..MaxCmds : Cardinality(DurableEvents(b, i)) <= 1
    /\ \A i, j \in 1..Len(commitOrder) : i /= j => commitOrder[i] /= commitOrder[j]

\* the commit of a batch of two commands failed with the setup-not-executed
\* error, Push fell back, and the fallback appended the batch: each command
\* has one committed event
C16_Witness ==
    \E p \in Procs :
        /\ Returned(p) /\ CommitFailed(p)
        /\ txEnd[p][1].err = "setupNotExecuted"
        /\ fbCalls[p] = 1 /\ res[p].err = NoErr
        /\ cmds[p].n = 2 /\ Full(Id(p), 2)
        /\ Cardinality(DbEvents(Id(p))) = 2
====
